---- MODULE Spec2Model ----
(***************************************************************************)
(* GraphQueryGenerationStep.run (graphrag_sdk/steps/graph_query_step.py):  *)
(* the bounded retry loop that sends a prompt to the chat session,         *)
(* extracts a Cypher query from the reply, validates it against the        *)
(* ontology, executes it on the graph and classifies the outcome.          *)
(*                                                                         *)
(* Strings are sequences of tokens: concatenation is \o, the empty string  *)
(* is << >>, and Python's `a in b` on strings is contiguous containment.   *)
(* The two prompt templates are taken to be well-formed strings with the   *)
(* placeholders the code fills, so that building the prompt cannot raise.  *)
(***************************************************************************)
EXTENDS Integers, Sequences, FiniteSets, TLC

\* ------------------------------------------------------------------ bounds
MaxRetries == 3
MaxInvocations == 2

\* ------------------------------------------------------------------ strings
EmptyStr == << >>
\* Python None, where a string is optional
None == <<"<None>">>
\* the local `error` before its first assignment (no binding at all)
Unbound == <<"<unbound>">>

\* Python `sub in s` for strings
StrIn(sub, s) ==
    \E k \in 0..(Len(s) - Len(sub)) : SubSeq(s, k + 1, k + Len(sub)) = sub

\* Python "\n".join(parts)
RECURSIVE JoinLines(_)
JoinLines(parts) ==
    IF parts = << >> THEN EmptyStr
    ELSE IF Len(parts) = 1 THEN parts[1]
    ELSE parts[1] \o <<"\n">> \o JoinLines(Tail(parts))

RateLimitMarker == <<"litellm.RateLimitError">>

\* ------------------------------------------------------------------ inputs
Questions == { <<"q1">>, <<"q2">> }
LastAnswers == { None, <<"a1">> }
RetryLimits == 1..MaxRetries

\* self.cypher_prompt.format(question=question)
FormatFresh(q) == <<"FRESH:">> \o q
\* self.cypher_prompt_with_history.format(question=question, last_answer=...)
FormatWithHistory(q, la) == <<"HIST:">> \o q \o <<"LAST:">> \o la

\* messages of the errors chat_session.send_message may raise
SendErrors == { <<"litellm.RateLimitError", "quota">>, <<"connection", "reset">> }
\* what validate_cypher may return besides None: non-empty lists of messages
ViolationLists ==
    { << <<"bad_label">> >>,
      << <<"bad_label">>, <<"bad_rel">> >>,
      << <<"label", "litellm.RateLimitError", "unknown">> >> }
\* messages of the errors graph.query may raise
QueryErrors == { <<"syntax", "error">>, <<"near", "litellm.RateLimitError">> }

Queries == { <<"Q1">>, <<"Q2">> }
\* result sets graph.query may return, and the run times it may report
ResultSets == { << >>, <<"row42">> }
RunTimes == { 5, 7 }
NoTime == 0 - 1

\* what extract_cypher may return: None, or a dict (its keys and values)
NoDict == [isNone |-> TRUE, keys |-> {}, context |-> None, display |-> None]
Dict(ks, c, d) == [isNone |-> FALSE, keys |-> ks, context |-> c, display |-> d]
\* the usable results considered: the first query comes with a display form,
\* the second without the display key
Candidate(q) ==
    IF q = <<"Q1">> THEN Dict({"context", "display"}, q, <<"D1">>)
    ELSE Dict({"context"}, q, None)
ExtractResults ==
    { NoDict,
      Dict({}, None, None),
      Dict({"error"}, None, None),
      Dict({"display"}, None, <<"D1">>),
      Dict({"context"}, None, None) }
    \cup { Candidate(q) : q \in Queries }

\* ------------------------------------------------------------------ helpers
\* check_falkordb_result_set_empty(result_set): the row set holds no row
check_falkordb_result_set_empty(rs) == rs = << >>

\* stringify_falkordb_response(result_set): one rendered item per row
stringify_falkordb_response(rs) == [k \in 1..Len(rs) |-> "str(" \o rs[k] \o ")"]

\* ------------------------------------------------------------------ run: pure parts
\* `for i in range(retries)`: another iteration after `done` iterations
RangeHasNext_off(done, limit) == done <= limit
RangeHasNext(done, limit) == done < limit

\* lines 72-77: the prompt is built from a template only while it is ""
BuildPrompt_always(p, q, la) ==
    IF la = None THEN FormatFresh(q) ELSE FormatWithHistory(q, la)
BuildPrompt(p, q, la) ==
    IF p = EmptyStr
    THEN (IF la = None THEN FormatFresh(q) ELSE FormatWithHistory(q, la))
    ELSE p

\* lines 86-90: `not result or "error" in result`, then
\* `"context" not in result or result["context"] is None`
IsNoAnswer_lax(res) == res.isNone \/ res.keys = {} \/ "error" \in res.keys
IsNoAnswer(res) ==
    \/ res.isNone
    \/ res.keys = {}
    \/ "error" \in res.keys
    \/ "context" \notin res.keys
    \/ res.context = None

\* line 92: cypher = result["context"]
CandidateQuery_stale(res, old) == IF old = EmptyStr THEN res.context ELSE old
CandidateQuery(res, old) == res.context

\* line 96: Exception("\n".join(validation_errors)), as str(e)
ValidationMessage(viols) == JoinLines(viols)

\* lines 103-104: is_empty_result and cypher != last_empty_query
RetryOnEmpty_eq(rs, cy, leq) == check_falkordb_result_set_empty(rs) /\ cy = leq
RetryOnEmpty_always(rs, cy, leq) == check_falkordb_result_set_empty(rs)
RetryOnEmpty(rs, cy, leq) == check_falkordb_result_set_empty(rs) /\ cy # leq

\* line 107: the empty-result repair prompt
EmptyResultPrompt(q) ==
    <<"The generated Cypher query returned an empty result set. ",
      "Otherwise, return the same Cypher query. ",
      "The question to answer is: ">> \o q

\* line 115: result["display"] if "display" in result else None
DisplayOf_context(res) == IF "display" \in res.keys THEN res.context ELSE None
DisplayOf(res) == IF "display" \in res.keys THEN res.display ELSE None

\* line 119: "litellm.RateLimitError" in str(e)
IsRateLimitError(e) == StrIn(RateLimitMarker, e)

\* line 122: the error repair prompt
ErrorRepairPrompt(e, q) ==
    <<"The previous Cypher query you generated resulted in the following error: ">>
    \o e
    \o <<". Please generate a new Cypher query that avoids this error. ",
         "The question to answer is: ">>
    \o q

\* line 118: error = e
ErrorAfterExcept_norl(e, old) == IF IsRateLimitError(e) THEN old ELSE e
ErrorAfterExcept(e, old) == e

\* lines 119-122: the prompt the except block leaves for the next attempt
PromptAfterExcept_repair(e, p, q) == ErrorRepairPrompt(e, q)
PromptAfterExcept(e, p, q) ==
    IF IsRateLimitError(e) THEN p ELSE ErrorRepairPrompt(e, q)

\* lines 116-122: the except block assigns nothing to last_empty_query
LastEmptyAfterExcept_reset(e, old) == None
LastEmptyAfterExcept(e, old) == old

\* lines 119-120: calls of chat_session.delete_last_message in the except block
DeletesAfterExcept(e) == IF IsRateLimitError(e) THEN 1 ELSE 0

\* line 124: "Failed to generate Cypher query: " + str(error)
FailurePrefix == <<"Failed to generate Cypher query: ">>
FailureMessage(err) == FailurePrefix \o err

\* ------------------------------------------------------------------ outcomes of run
Running ==
    [kind |-> "running", context |-> None, query |-> None, elapsed_ms |-> NoTime,
     display |-> None, exc |-> "", msg |-> None]
\* line 87, 90, 115: the returned tuple; None in place of the time is NoTime
Returned(ctx, q, t, d) ==
    [kind |-> "return", context |-> ctx, query |-> q, elapsed_ms |-> t,
     display |-> d, exc |-> "", msg |-> None]
NoAnswer == Returned(None, None, NoTime, None)
Raised(type, m) ==
    [kind |-> "raise", context |-> None, query |-> None, elapsed_ms |-> NoTime,
     display |-> None, exc |-> type, msg |-> m]
\* lines 116-122: the except block swallows the error; the loop goes on
AfterExcept_reraise(e) ==
    IF IsRateLimitError(e) THEN [pc |-> "loop", ret |-> Running]
    ELSE [pc |-> "done", ret |-> Raised("Exception", e)]
AfterExcept(e) == [pc |-> "loop", ret |-> Running]

\* line 124: str(error) on an unbound local raises UnboundLocalError instead
FinalRaise(err) ==
    IF err = Unbound
    THEN Raised("UnboundLocalError", <<"local variable 'error' referenced before assignment">>)
    ELSE Raised("Exception", FailureMessage(err))

\* ------------------------------------------------------------------ state
VARIABLES
    last_answer,       \* self.last_answer, set at construction
    invocation,        \* how many times run has been called on this instance
    question, retries, \* the arguments of the current call of run
    pc,                \* where the call is: "loop", "extracted", "validated", "done"
    attempts,          \* loop iterations begun (the next `i` of range(retries))
    cypher, cypher_prompt, last_empty_query, error, result,   \* locals of run
    ret,               \* how the call ended: the returned tuple or the raised error
    sends, validations, queries, deletes,   \* calls received by the collaborators
    cur, prev,         \* what the collaborators saw in this attempt and the one before
    last_raised,       \* message of the latest error raised inside the loop
    emptied,           \* queries that came back with an empty result set in this call
    carried_empty      \* last_empty_query as the previous call of run left it

locals == <<cypher, cypher_prompt, last_empty_query, error, result>>
calls == <<sends, validations, queries, deletes>>
vars == <<last_answer, invocation, question, retries, pc, attempts, locals, ret,
          calls, cur, prev, last_raised, emptied, carried_empty>>

\* the record of one attempt, as seen from the collaborators
NoAttempt ==
    [n |-> 0, prompt |-> None, send_error |-> None, extracted |-> FALSE,
     res |-> NoDict, validated |-> FALSE, violation |-> None, executed |-> FALSE,
     query |-> None, query_error |-> None, rows |-> << >>, run_time_ms |-> NoTime,
     deletes |-> 0, end |-> "none"]

\* what is kept of an attempt once the next one has begun
NoPrev ==
    [n |-> 0, prompt |-> None, end |-> "none", send_error |-> None,
     violation |-> None, query_error |-> None, executed |-> FALSE,
     query |-> None, display |-> None, rows |-> << >>, deletes |-> 0]
Past(att) ==
    [n |-> att.n, prompt |-> att.prompt, end |-> att.end,
     send_error |-> att.send_error, violation |-> att.violation,
     query_error |-> att.query_error, executed |-> att.executed,
     query |-> att.query,
     display |-> IF att.executed /\ "display" \in att.res.keys
                 THEN att.res.display ELSE None,
     rows |-> att.rows, deletes |-> att.deletes]

\* run entered with last_empty_query kept from the call before
EnterRun_keep(q, r) ==
    /\ question' = q
    /\ retries' = r
    /\ pc' = "loop"
    /\ attempts' = 0
    /\ cypher' = EmptyStr
    /\ cypher_prompt' = EmptyStr
    /\ last_empty_query' = last_empty_query
    /\ error' = Unbound
    /\ result' = NoDict
    /\ ret' = Running
    /\ sends' = 0 /\ validations' = 0 /\ queries' = 0 /\ deletes' = 0
    /\ cur' = NoAttempt
    /\ prev' = NoPrev
    /\ last_raised' = None
    /\ emptied' = {}

\* lines 55-69: run is entered and its locals are initialised
EnterRun(q, r) ==
    /\ question' = q
    /\ retries' = r
    /\ pc' = "loop"
    /\ attempts' = 0
    /\ cypher' = EmptyStr
    /\ cypher_prompt' = EmptyStr
    /\ last_empty_query' = None
    /\ error' = Unbound
    /\ result' = NoDict
    /\ ret' = Running
    /\ sends' = 0 /\ validations' = 0 /\ queries' = 0 /\ deletes' = 0
    /\ cur' = NoAttempt
    /\ prev' = NoPrev
    /\ last_raised' = None
    /\ emptied' = {}

\* lines 25-53 then 55-69: construction, then the first call of run
Init ==
    /\ last_answer \in LastAnswers
    /\ invocation = 1
    /\ question \in Questions
    /\ retries \in RetryLimits
    /\ pc = "loop"
    /\ attempts = 0
    /\ cypher = EmptyStr
    /\ cypher_prompt = EmptyStr
    /\ last_empty_query = None
    /\ error = Unbound
    /\ result = NoDict
    /\ ret = Running
    /\ sends = 0 /\ validations = 0 /\ queries = 0 /\ deletes = 0
    /\ cur = NoAttempt
    /\ prev = NoPrev
    /\ last_raised = None
    /\ emptied = {}
    /\ carried_empty = None

\* lines 116-122: the except block, entered with str(e) = e and the prompt p
\* the attempt was running with; `att` is the attempt's record so far
Except(e, p, att) ==
    /\ error' = ErrorAfterExcept(e, error)
    /\ last_empty_query' = LastEmptyAfterExcept(e, last_empty_query)
    /\ cypher_prompt' = PromptAfterExcept(e, p, question)
    /\ deletes' = deletes + DeletesAfterExcept(e)
    /\ cur' = [att EXCEPT !.deletes = DeletesAfterExcept(e),
                          !.end = IF IsRateLimitError(e) THEN "rate_limit" ELSE "repair"]
    /\ last_raised' = e
    /\ pc' = AfterExcept(e).pc
    /\ ret' = AfterExcept(e).ret

\* the attempt record opened by the send of prompt p
Opened(p) == [NoAttempt EXCEPT !.n = attempts + 1, !.prompt = p]

\* lines 70-81, 116-122: a new iteration builds the prompt, send_message raises
SendRaises(e) ==
    /\ pc = "loop"
    /\ RangeHasNext(attempts, retries)
    /\ attempts' = attempts + 1
    /\ prev' = Past(cur)
    /\ sends' = sends + 1
    /\ LET p == BuildPrompt(cypher_prompt, question, last_answer)
       IN Except(e, p, [Opened(p) EXCEPT !.send_error = e])
    /\ UNCHANGED <<last_answer, invocation, question, retries, cypher, result,
                   validations, queries, emptied, carried_empty>>

\* lines 70-84: a new iteration builds the prompt, send_message returns a reply
\* and extract_cypher turns its text into `res`
SendReturns(res) ==
    /\ pc = "loop"
    /\ RangeHasNext(attempts, retries)
    /\ attempts' = attempts + 1
    /\ prev' = Past(cur)
    /\ sends' = sends + 1
    /\ cypher_prompt' = BuildPrompt(cypher_prompt, question, last_answer)
    /\ result' = res
    /\ cur' = [Opened(cypher_prompt') EXCEPT !.extracted = TRUE, !.res = res]
    /\ pc' = "extracted"
    /\ UNCHANGED <<last_answer, invocation, question, retries, cypher,
                   last_empty_query, error, ret, validations, queries, deletes,
                   last_raised, emptied, carried_empty>>

\* lines 86-90: nothing usable was extracted: return (None, None, None, None)
ReturnNoAnswer ==
    /\ pc = "extracted"
    /\ IsNoAnswer(result)
    /\ ret' = NoAnswer
    /\ pc' = "done"
    /\ cur' = [cur EXCEPT !.end = "noanswer"]
    /\ UNCHANGED <<last_answer, invocation, question, retries, attempts, locals,
                   calls, prev, last_raised, emptied, carried_empty>>

\* lines 92-96, 116-122: validate_cypher returns violations; the raise is caught
ValidateFails(viols) ==
    /\ pc = "extracted"
    /\ ~IsNoAnswer(result)
    /\ cypher' = CandidateQuery(result, cypher)
    /\ validations' = validations + 1
    /\ Except(ValidationMessage(viols), cypher_prompt,
              [cur EXCEPT !.validated = TRUE, !.violation = ValidationMessage(viols)])
    /\ UNCHANGED <<last_answer, invocation, question, retries, attempts,
                   result, sends, queries, prev, emptied, carried_empty>>

\* lines 92-95: validate_cypher returns None
ValidatePasses ==
    /\ pc = "extracted"
    /\ ~IsNoAnswer(result)
    /\ cypher' = CandidateQuery(result, cypher)
    /\ validations' = validations + 1
    /\ cur' = [cur EXCEPT !.validated = TRUE]
    /\ pc' = "validated"
    /\ UNCHANGED <<last_answer, invocation, question, retries, attempts,
                   cypher_prompt, last_empty_query, error, result, ret, sends,
                   queries, deletes, prev, last_raised, emptied, carried_empty>>

\* lines 98-99, 116-122: graph.query raises
QueryRaises(e) ==
    /\ pc = "validated"
    /\ queries' = queries + 1
    /\ Except(e, cypher_prompt,
              [cur EXCEPT !.executed = TRUE, !.query = cypher, !.query_error = e])
    /\ UNCHANGED <<last_answer, invocation, question, retries, attempts,
                   cypher, result, sends, validations, prev, emptied,
                   carried_empty>>

\* the attempt record after graph.query(cypher) returned rows rs in t ms
Executed(rs, t) ==
    [cur EXCEPT !.executed = TRUE, !.query = cypher, !.rows = rs, !.run_time_ms = t]

\* lines 98-108: graph.query returns an empty result set for a query that is
\* not last_empty_query: remember it, set the empty-result prompt, continue
QueryEmptyRetry(rs, t) ==
    /\ pc = "validated"
    /\ RetryOnEmpty(rs, cypher, last_empty_query)
    /\ queries' = queries + 1
    /\ last_empty_query' = cypher
    /\ cypher_prompt' = EmptyResultPrompt(question)
    /\ cur' = [Executed(rs, t) EXCEPT !.end = "empty_retry"]
    /\ emptied' = emptied \cup {cypher}
    /\ pc' = "loop"
    /\ UNCHANGED <<last_answer, invocation, question, retries, attempts, cypher,
                   error, result, ret, sends, validations, deletes, prev,
                   last_raised, carried_empty>>

\* lines 98-104, 110-115: graph.query returns rows (or repeats the empty
\* query): return (context, cypher, execution_time, display)
QuerySucceeds(rs, t) ==
    /\ pc = "validated"
    /\ ~RetryOnEmpty(rs, cypher, last_empty_query)
    /\ queries' = queries + 1
    /\ ret' = Returned(stringify_falkordb_response(rs), cypher, t, DisplayOf(result))
    /\ cur' = [Executed(rs, t) EXCEPT !.end = "success"]
    /\ pc' = "done"
    /\ UNCHANGED <<last_answer, invocation, question, retries, attempts, locals,
                   sends, validations, deletes, prev, last_raised, emptied, carried_empty>>

\* lines 70, 124: the loop is over: raise Exception("Failed ..." + str(error))
Exhausted ==
    /\ pc = "loop"
    /\ ~RangeHasNext(attempts, retries)
    /\ ret' = FinalRaise(error)
    /\ pc' = "done"
    /\ UNCHANGED <<last_answer, invocation, question, retries, attempts, locals,
                   calls, cur, prev, last_raised, emptied, carried_empty>>

\* lines 55-69: the same instance is asked to run again
RunAgain(q, r) ==
    /\ pc = "done"
    /\ invocation < MaxInvocations
    /\ invocation' = invocation + 1
    /\ EnterRun(q, r)
    /\ carried_empty' = last_empty_query
    /\ UNCHANGED last_answer

Next ==
    \/ \E e \in SendErrors : SendRaises(e)
    \/ \E res \in ExtractResults : SendReturns(res)
    \/ ReturnNoAnswer
    \/ \E viols \in ViolationLists : ValidateFails(viols)
    \/ ValidatePasses
    \/ \E e \in QueryErrors : QueryRaises(e)
    \/ \E rs \in ResultSets, t \in RunTimes : QueryEmptyRetry(rs, t)
    \/ \E rs \in ResultSets, t \in RunTimes : QuerySucceeds(rs, t)
    \/ Exhausted
    \/ \E q \in Questions, r \in RetryLimits : RunAgain(q, r)

Spec == Init /\ [][Next]_vars

\* ------------------------------------------------------------------ claims
\* the error an attempt caught, if any (None when it caught none)
CaughtIn(att) ==
    IF att.send_error # None THEN att.send_error
    ELSE IF att.violation # None THEN att.violation
    ELSE att.query_error

\* the caller's view of a rate-limit error: the message names litellm's error
NamesRateLimit(m) == m # None /\ StrIn(RateLimitMarker, m)

\* C1: one call of run performs at most `retries` chat-session sends: the
\* count of send_message calls never exceeds the retry limit.
C1_SendsWithinLimit == sends <= retries

C1_Witness == sends = retries /\ retries >= 2 /\ pc = "done" /\ ret.kind = "raise"

\* C2: when every attempt is used up without success or NoAnswer, run ends
\* with the "Failed to generate Cypher query" Exception carrying a defined
\* payload (the last recorded error, or "unknown" if none was recorded), never
\* by referencing the undefined local `error`.
C2_ExhaustionCarriesDefinedError ==
    (pc = "done" /\ ret.kind = "raise") =>
        /\ ret.exc = "Exception"
        /\ ret.msg = FailurePrefix \o (IF last_raised = None THEN <<"unknown">>
                                       ELSE last_raised)

\* C3: if at attempt k nothing usable is extracted (None, an empty dict, an
\* error marker, no context or a None context), run returns
\* (None, None, None, None) at once: k sends in total, no validate_cypher and
\* no graph.query call in attempt k, and the call is over (a finished call
\* takes no step but the start of the next call).
C3_Unusable(res) ==
    \/ res.isNone
    \/ res.keys = {}
    \/ "error" \in res.keys
    \/ "context" \notin res.keys
    \/ res.context = None

C3_AfterUnusable ==
    (cur.extracted /\ C3_Unusable(cur.res) /\ pc # "extracted") =>
        /\ pc = "done"
        /\ ret = NoAnswer
        /\ sends = cur.n
        /\ attempts = cur.n
        /\ ~cur.validated
        /\ ~cur.executed
        /\ cur.deletes = 0

C3_NoAnswerIsImmediate ==
    /\ []C3_AfterUnusable
    /\ [][pc = "done" => (invocation' = invocation + 1 /\ sends' = 0)]_vars

C3_Witness ==
    /\ ret = NoAnswer
    /\ cur.n = 2
    /\ retries > cur.n
    /\ "display" \in cur.res.keys

\* C4: if the candidate query of attempt k < retries fails validation, the
\* graph is not queried in attempt k, and the prompt sent at attempt k+1
\* contains the joined violation messages and the question.
C4_ViolationsReachNextPrompt ==
    /\ cur.violation # None => ~cur.executed
    /\ (cur.n = prev.n + 1 /\ prev.violation # None) =>
           /\ ~prev.executed
           /\ StrIn(prev.violation, cur.prompt)
           /\ StrIn(question, cur.prompt)

\* C5: a successful return at attempt k hands back the query extracted at
\* attempt k (the one the graph executed), the run time the graph reported
\* for that execution and the rendering of exactly its rows.
C5_SuccessReturnsThisAttempt ==
    cur.end = "success" =>
        /\ pc = "done"
        /\ ret.kind = "return"
        /\ cur.executed /\ cur.query_error = None
        /\ cur.query = cur.res.context
        /\ ret.query = cur.res.context
        /\ ret.elapsed_ms = cur.run_time_ms
        /\ ret.context = stringify_falkordb_response(cur.rows)

C5_Witness ==
    /\ cur.end = "success"
    /\ cur.n = 3
    /\ prev.executed /\ prev.query # cur.query
    /\ cur.rows # << >>

\* C6: a query that came back empty at attempt k (so the empty-result prompt
\* was set) and is returned again at attempt k+1, again with an empty result
\* set, is accepted: run returns at attempt k+1 with an empty context and
\* that query, and there is no send k+2.
C6_RepeatedEmpty ==
    /\ prev.end = "empty_retry"
    /\ cur.n = prev.n + 1
    /\ cur.prompt = EmptyResultPrompt(question)
    /\ cur.executed /\ cur.query_error = None
    /\ cur.query = prev.query
    /\ cur.rows = << >>

C6_RepeatedEmptyIsFinal ==
    C6_RepeatedEmpty =>
        /\ pc = "done"
        /\ ret.kind = "return"
        /\ ret.context = EmptyStr
        /\ ret.query = prev.query
        /\ sends = cur.n

C6_Witness == C6_RepeatedEmpty /\ cur.n = 2 /\ retries = 3 /\ ret.kind = "return"

\* C7: if attempt k < retries ends in rate-limit recovery (the send was
\* rate-limited, or the session's last message was deleted), the prompt sent
\* at attempt k+1 is the very prompt sent at attempt k.
C7_RateLimitKeepsPrompt ==
    (cur.n = prev.n + 1 /\ (NamesRateLimit(prev.send_error) \/ prev.deletes > 0)) =>
        cur.prompt = prev.prompt

C7_Witness ==
    /\ cur.n = 3
    /\ NamesRateLimit(prev.send_error)
    /\ prev.prompt = EmptyResultPrompt(question)
    /\ cur.prompt = prev.prompt

\* C8: delete_last_message is called only in an attempt whose send failed
\* with a rate-limit error of the model provider, exactly once in such an
\* attempt, and never in an attempt that ended in a validation error, an
\* execution error, an empty result, success or NoAnswer.
C8_DeleteOnlyOnRateLimitedSend ==
    /\ cur.deletes > 0 => NamesRateLimit(cur.send_error)
    /\ NamesRateLimit(cur.send_error) => cur.deletes = 1
    /\ (cur.violation # None \/ cur.executed \/ cur.extracted) => cur.deletes = 0

\* C9: when run fails by exhaustion after at least one error was caught, the
\* failure carries the most recent error caught in the call, also when later
\* attempts ended in the empty-result retry without an error.
C9_FailureCarriesLatestError ==
    (pc = "done" /\ ret.kind = "raise" /\ last_raised # None) =>
        /\ ret.exc = "Exception"
        /\ ret.msg = FailurePrefix \o last_raised

C9_Witness ==
    /\ pc = "done" /\ ret.kind = "raise"
    /\ cur.end = "empty_retry"
    /\ NamesRateLimit(last_raised)
    /\ prev.query_error = last_raised

\* C10: a retryable failure (rate limit, validation failure, execution
\* failure, transport error on send) at attempt k < retries does not end the
\* call: the call is still running, its next step is the send of attempt
\* k+1, and that send can be taken; an error reaches the caller only once
\* all `retries` attempts are used.
C10_FailedAttempt == cur.n >= 1 /\ CaughtIn(cur) # None

C10_RetryableStaysInside ==
    /\ [](ret.kind = "raise" => (pc = "done" /\ attempts = retries))
    /\ []((C10_FailedAttempt /\ cur.n < retries) =>
              /\ pc = "loop" /\ ret = Running
              /\ ENABLED (\E res \in ExtractResults : SendReturns(res)))
    /\ [][(C10_FailedAttempt /\ cur.n < retries) =>
              (sends' = sends + 1 /\ cur'.n = cur.n + 1 /\ ret' = Running)]_vars

C10_Witness ==
    /\ prev.n = 1 /\ cur.n = 2 /\ retries = 3
    /\ prev.send_error = <<"connection", "reset">>
    /\ cur.query_error # None
    /\ pc = "loop"

\* C11: every call of run terminates within `retries` attempts in exactly one
\* of the outcomes success, NoAnswer or failure (an error raised to the
\* caller); every attempt, also one that ends in rate-limit recovery, error
\* repair or the empty-result retry, uses up one of the `retries` iterations;
\* a call whose sends are all rate-limited fails after exactly `retries` sends.
\* Termination is the strict decrease of C11_Measure, which is bounded below,
\* at every step of the call, together with a step being possible until done.
C11_Rank == CASE pc = "extracted" -> 2 [] pc = "validated" -> 1 [] pc = "loop" -> 0
              [] OTHER -> 0 - 1
C11_Measure == 3 * (retries - attempts) + C11_Rank

C11_StepOfRun ==
    \/ \E e \in SendErrors : SendRaises(e)
    \/ \E res \in ExtractResults : SendReturns(res)
    \/ ReturnNoAnswer
    \/ \E viols \in ViolationLists : ValidateFails(viols)
    \/ ValidatePasses
    \/ \E e \in QueryErrors : QueryRaises(e)
    \/ \E rs \in ResultSets, t \in RunTimes : QueryEmptyRetry(rs, t)
    \/ \E rs \in ResultSets, t \in RunTimes : QuerySucceeds(rs, t)
    \/ Exhausted

C11_Success == ret.kind = "return" /\ ret # NoAnswer /\ cur.end = "success"
C11_NoAnswer == ret = NoAnswer /\ cur.end = "noanswer"
C11_Failure == ret.kind = "raise" /\ attempts = retries

C11_Outcome ==
    /\ attempts <= retries /\ sends = attempts /\ cur.n = attempts
    /\ C11_Measure >= 0 - 1
    /\ pc # "done" => (ret = Running /\ ENABLED C11_StepOfRun)
    /\ pc = "done" =>
           /\ C11_Success \/ C11_NoAnswer \/ C11_Failure
           /\ ~(C11_Success /\ C11_NoAnswer)
           /\ ~(C11_Success /\ C11_Failure)
           /\ ~(C11_NoAnswer /\ C11_Failure)
    /\ (pc = "loop" /\ cur.n >= 1) => cur.end \in {"rate_limit", "repair", "empty_retry"}
    /\ (pc = "done" /\ deletes = sends /\ validations = 0) =>
           /\ ret.kind = "raise" /\ ret.exc = "Exception"
           /\ sends = retries
           /\ NamesRateLimit(last_raised)

C11_Terminates ==
    /\ []C11_Outcome
    /\ [][invocation' = invocation => C11_Measure' < C11_Measure]_vars
    /\ [][attempts' = attempts \/ (attempts' = attempts + 1 /\ sends' = sends + 1)
          \/ invocation' # invocation]_vars

C11_Witness ==
    /\ pc = "done" /\ retries = 3
    /\ deletes = sends /\ validations = 0
    /\ ret.kind = "raise"

\* C12: a second call of run on the same instance carries no query state
\* over from the first: it starts with last_empty_query = None, an empty
\* prompt that the first iteration builds from the template, and all
\* `retries` iterations ahead; so a query whose result was empty in the call
\* before is retried, not accepted, on its first empty result in this call.
C12_Template ==
    IF last_answer = None THEN FormatFresh(question)
    ELSE FormatWithHistory(question, last_answer)

C12_FreshStart ==
    /\ (pc = "loop" /\ attempts = 0) =>
           /\ last_empty_query = None
           /\ cypher_prompt = EmptyStr
           /\ cypher = EmptyStr
           /\ error = Unbound
           /\ sends = 0 /\ emptied = {}
           /\ ENABLED (\E res \in ExtractResults : SendReturns(res))
    /\ cur.n = 1 => cur.prompt = C12_Template

C12_NoCarryOver ==
    /\ []C12_FreshStart
    /\ [][invocation' = invocation + 1 =>
              (last_empty_query' = None /\ cypher_prompt' = EmptyStr /\ attempts' = 0)]_vars
    /\ [][(invocation >= 2 /\ pc = "validated" /\ cypher \notin emptied
           /\ cur'.executed /\ cur'.query_error = None /\ cur'.rows = << >>) =>
              (pc' = "loop" /\ ret' = Running /\ cur'.end = "empty_retry")]_vars

C12_Witness ==
    /\ invocation = 2
    /\ carried_empty = <<"Q1">>
    /\ cur.n = 1 /\ cur.prompt = C12_Template
    /\ cur.query = <<"Q1">> /\ cur.rows = << >>
    /\ cur.end = "empty_retry"

\* C13: if attempt k < retries ends with an error that is not a rate-limit
\* error of the provider (an error raised by graph.query, or a transport
\* error raised by the send), the prompt sent at attempt k+1 is the error
\* repair prompt embedding that error's text and the question.
C13_OtherError(att) ==
    \/ att.query_error # None
    \/ att.send_error # None /\ ~NamesRateLimit(att.send_error)

C13_ErrorRepairIsNextPrompt ==
    (cur.n = prev.n + 1 /\ C13_OtherError(prev)) =>
        /\ cur.prompt = ErrorRepairPrompt(CaughtIn(prev), question)
        /\ StrIn(CaughtIn(prev), cur.prompt)
        /\ StrIn(question, cur.prompt)

\* C14: within an attempt the collaborators are called in the order send,
\* extract, validate, execute, each at most once: validate_cypher only after
\* a send that returned a usable query, graph.query if and only if
\* validate_cypher reported no violation, and neither when the send raised;
\* so queries <= validations <= sends in every state.
C14_OrderInAttempt ==
    /\ queries <= validations /\ validations <= sends
    /\ cur.send_error # None => (~cur.extracted /\ ~cur.validated /\ ~cur.executed)
    /\ cur.validated => (cur.extracted /\ cur.send_error = None /\ ~C3_Unusable(cur.res))
    /\ cur.executed => (cur.validated /\ cur.violation = None)
    /\ (cur.validated /\ cur.violation = None /\ pc \in {"loop", "done"}) => cur.executed

C14_CallOrder ==
    /\ []C14_OrderInAttempt
    /\ [][invocation' = invocation =>
            /\ sends' \in {sends, sends + 1}
            /\ sends' = sends + 1 => cur'.n = cur.n + 1
            /\ validations' \in {validations, validations + 1}
            /\ validations' = validations + 1 =>
                   (cur'.n = cur.n /\ ~cur.validated /\ cur'.validated)
            /\ queries' \in {queries, queries + 1}
            /\ queries' = queries + 1 =>
                   (cur'.n = cur.n /\ ~cur.executed /\ cur'.executed)]_vars

C14_Witness ==
    /\ sends = 3 /\ validations = 2 /\ queries = 1
    /\ cur.send_error # None
    /\ prev.violation # None

\* C15: the prompt is built from a template on the first attempt only: the
\* first prompt sent is the fresh template filled with the question when no
\* last answer was given at construction, and the with-history template
\* filled with question and last answer otherwise; the prompt sent at an
\* attempt k > 1 is the one attempt k-1 left: the same prompt after
\* rate-limit recovery, the error repair prompt after another error, the
\* empty-result prompt after a new empty result.
C15_LeftBy(att) ==
    IF att.executed /\ att.query_error = None THEN EmptyResultPrompt(question)
    ELSE IF att.deletes > 0 THEN att.prompt
    ELSE ErrorRepairPrompt(CaughtIn(att), question)

C15_PromptSent ==
    /\ cur.n = 1 => cur.prompt = C12_Template
    /\ cur.n > 1 => (prev.n = cur.n - 1 /\ cur.prompt = C15_LeftBy(prev))
    /\ (pc = "loop" /\ cur.n >= 1) => cypher_prompt = C15_LeftBy(Past(cur))

C15_Witness ==
    /\ cur.n = 3
    /\ last_answer = <<"a1">>
    /\ prev.deletes > 0
    /\ cur.prompt = FormatWithHistory(question, last_answer)

\* C16: when a query comes back with an empty result set and differs from
\* last_empty_query, run does not return in that attempt: last_empty_query
\* becomes that query, the prompt becomes the empty-result prompt restating
\* the question, and with budget left that prompt is the next one sent.
C16_AfterNewEmpty ==
    /\ (cur.n = prev.n + 1 /\ prev.executed /\ prev.query_error = None
        /\ prev.rows = << >>) =>
           (cur.prompt = EmptyResultPrompt(question) /\ StrIn(question, cur.prompt))
    /\ (pc = "loop" /\ cur.end = "empty_retry" /\ cur.n < retries) =>
           ENABLED (\E res \in ExtractResults : SendReturns(res))

C16_NewEmptyIsRetried ==
    /\ []C16_AfterNewEmpty
    /\ [][(pc = "validated" /\ cypher # last_empty_query
           /\ cur'.executed /\ cur'.query_error = None /\ cur'.rows = << >>) =>
              /\ pc' = "loop" /\ ret' = Running
              /\ cur'.query = cypher
              /\ last_empty_query' = cypher
              /\ cypher_prompt' = EmptyResultPrompt(question)]_vars

C16_Witness ==
    /\ cur.n = 2 /\ pc = "loop" /\ retries = 3
    /\ prev.end = "empty_retry" /\ prev.query = <<"Q1">>
    /\ cur.end = "empty_retry" /\ cur.query = <<"Q2">>
    /\ last_empty_query = <<"Q2">>

\* C17: on success the returned display is the display field of the result
\* extracted in the successful attempt when it has one, and None otherwise;
\* never the display of an earlier attempt's result.
C17_DisplayOfThisAttempt ==
    (pc = "done" /\ ret.kind = "return" /\ cur.executed) =>
        /\ "display" \in cur.res.keys => ret.display = cur.res.display
        /\ "display" \notin cur.res.keys => ret.display = None

C17_Witness ==
    /\ pc = "done" /\ ret.kind = "return" /\ cur.executed
    /\ cur.n = 2
    /\ prev.executed /\ prev.display = <<"D1">>
    /\ "display" \notin cur.res.keys
    /\ ret.display = None

\* C18: run returns success with an empty result set only if the returned
\* query already came back empty in an earlier attempt of the same call; so
\* such a return needs at least two sends and two executions, and with
\* retries = 1 an empty result set never yields success.
C18_EmptySuccess ==
    pc = "done" /\ ret.kind = "return" /\ cur.executed /\ cur.rows = << >>

C18_EmptySuccessNeedsEarlierEmpty ==
    C18_EmptySuccess =>
        /\ ret.query \in emptied
        /\ sends >= 2 /\ queries >= 2
        /\ retries # 1

C18_Witness ==
    /\ C18_EmptySuccess
    /\ sends = 2 /\ queries = 2 /\ retries = 2
    /\ ret.context = EmptyStr

\* C19: the except block (rate-limit recovery or error repair) leaves
\* last_empty_query unchanged; within a call it changes only in the branch
\* for a new empty result, where it becomes the query just executed. So a
\* query that came back empty at attempt i is accepted as final when it comes
\* back empty again at a later attempt j with no other empty query in
\* between, also when attempts between i and j failed with errors.
C19_ReturnsEmpty ==
    pc = "validated" /\ cur'.executed /\ cur'.query_error = None /\ cur'.rows = << >>

C19_AcceptedAsFinal ==
    pc' = "done" /\ ret'.kind = "return" /\ ret'.query = cypher /\ ret'.context = EmptyStr

C19_LastEmptyQueryFrame ==
    /\ [][last_empty_query' # last_empty_query =>
            \/ invocation' # invocation
            \/ (C19_ReturnsEmpty /\ cur'.end = "empty_retry"
                /\ cypher # last_empty_query /\ last_empty_query' = cypher)]_vars
    /\ [][(C19_ReturnsEmpty /\ (cypher = last_empty_query \/ emptied = {cypher})) =>
            C19_AcceptedAsFinal]_vars

C19_Witness ==
    /\ pc = "done" /\ ret.kind = "return" /\ cur.rows = << >>
    /\ cur.n = 3
    /\ prev.end \in {"rate_limit", "repair"}
    /\ emptied = {cur.query}

====
